---- MODULE Spec2Model ----
(***************************************************************************)
(* Model of the voice sentiment analysis backend:                          *)
(*   - the model lifecycle of WhisperService and SentimentService          *)
(*     (singleton construction, load_model, lazy load on inference,        *)
(*     get_model_info, unload_model), at statement granularity so that     *)
(*     threads interleave where the Python code can be pre-empted;         *)
(*   - the AudioBuffer ring buffer of audio_utils.py.                      *)
(* The two services are independent objects with the same shape; one       *)
(* behaviour follows one of them, chosen by `kind` in the initial state.   *)
(***************************************************************************)
EXTENDS Integers, Sequences, FiniteSets, TLC

\* ---------------------------------------------------------------- bounds
NThreads == 2
MaxCalls == 4
MaxConc == 2
MaxTotal == 6
MaxAppend == 3
MaxDur2 == 5
MaxOff2 == 5
MaxChunk2 == 4
MaxOut == 4       \* entries in one classifier output
MaxScore == 2     \* scores a classifier reports, in tenths
MaxAudio == 4     \* samples passed to remove_silence
MaxFrame == 2     \* frame_length passed to remove_silence
MaxStems == 2     \* file stems of the inputs of concurrent conversions

Threads == 1..NThreads
Kinds == {"whisper", "sentiment"}

VARIABLES
  kind,          \* which service class this behaviour follows
  instance,      \* cls._instance is not None
  initialized,   \* instance._initialized
  clsLock,       \* holder of cls._lock (0 = free)
  imported,      \* the module-level "x_service = XService()" has completed
  model,         \* self.model      (0 = None, n = handle made by load sequence n)
  tokenizer,     \* self.tokenizer  (sentiment only)
  classifier,    \* self.classifier (sentiment only)
  device,        \* self.device
  load_time,     \* self._load_time (0 = None, n = duration recorded by load sequence n)
  model_loaded,  \* self._model_loaded
  nSeq,          \* load sequences entered (passed the guard of load_model)
  nDev,          \* device selections logged
  nInst,         \* models instantiated
  nRec,          \* load durations recorded
  nNew,          \* objects made by super().__new__
  nInitBody,     \* executions of the body of __init__
  calls,         \* calls started so far
  pc,            \* per thread: position in the running call
  op,            \* per thread: the running call
  arg,           \* per thread: path exists / text is non-empty
  force,         \* per thread: force_reload of the running load_model
  cont,          \* per thread: where load_model returns to
  myid,          \* per thread: the load sequence it is running
  staged,        \* per thread: the temp file of transcribe_numpy exists
  exc,           \* per thread: exception propagating through transcribe_numpy
  res,           \* per thread: result of the finished call
  afterUnload,   \* the call that returned last was unload_model
  sample_rate,   \* AudioBuffer.sample_rate
  max_samples,   \* AudioBuffer.max_samples
  buffer,        \* AudioBuffer.buffer
  hist,          \* every sample appended since construction or clear
  total,         \* samples appended since construction
  lastOp,        \* the last AudioBuffer call
  chunk,         \* the value the last AudioBuffer call returned
  results,       \* what self.classifier(text) returned: [label, score] records
  nested,        \* the classifier wrapped them in an outer list
  all_scores,    \* what analyze_with_all_scores returned
  dominant,      \* what analyze returned
  fop,           \* the file operation this behaviour follows
  fpc,           \* its position
  suffix,        \* Path(file).suffix, a sequence of characters
  allowed_formats, \* validate_audio_file's allowed_formats
  max_size_mb,   \* validate_audio_file's max_size_mb
  st_size,       \* size of the file, in units of 1/25 MB
  disk,          \* the files that exist: "upload", "wav", "tmp"
  temp_path,     \* analyze_upload's temp_path
  vanished,      \* another actor removed the file during validation
  vres,          \* what validate_audio_file returned or raised
  cres,          \* what convert_to_wav returned or raised
  tool,          \* how the run of the external transcoder ended
  fallback,      \* _convert_with_scipy was called
  fres,          \* what analyze_upload / audio_to_base64 returned or raised
  audio_data,    \* remove_silence's audio_data, samples numbered from 1
  non_silent,    \* the indices (from 0) where envelope > threshold
  frame_length,  \* remove_silence's frame_length
  trimmed,       \* what remove_silence returned
  rpc,           \* position of the remove_silence call
  apc,           \* per thread: position in append on the shared AudioBuffer
  secs2,         \* what length_seconds returned, in half seconds
  in_path,       \* per thread: input_path of its convert_to_wav call
  out_path,      \* per thread: output_path of its convert_to_wav call
  ppc,           \* per thread: position in the conversion and its cleanup
  tmpfiles,      \* per output path: the thread whose run wrote it (0 = no file)
  measured,      \* per thread: whose file its duration was read from
  deleted        \* per thread: whose file its cleanup removed

fields == <<model, tokenizer, classifier, device, load_time, model_loaded>>
counters == <<nSeq, nDev, nInst, nRec, nNew, nInitBody>>
clsvars == <<kind, instance, initialized, clsLock, imported>>
locals == <<pc, op, arg, force, cont, myid, staged, exc, res, calls,
            afterUnload>>
svars == <<clsvars, fields, counters, locals>>
bvars == <<sample_rate, max_samples, buffer, hist, total, lastOp, chunk>>
cvars == <<results, nested, all_scores, dominant>>
finputs == <<fop, suffix, allowed_formats, max_size_mb, st_size>>
fstate == <<fpc, disk, temp_path, vanished, vres, cres, tool, fallback, fres>>
fvars == <<finputs, fstate>>
rvars == <<audio_data, non_silent, frame_length, trimmed, rpc>>
avars == <<apc, secs2>>
pvars == <<in_path, out_path, ppc, tmpfiles, measured, deleted>>
ovars == <<rvars, avars, pvars>>
xvars == <<cvars, fvars, ovars>>
vars == <<svars, bvars, xvars>>

NoRes == [st |-> "none", dev |-> "none", lt |-> 0]
Res(s) == [st |-> s, dev |-> "none", lt |-> 0]

\* ------------------------------------------------------------ AudioBuffer
\* int(): truncation toward zero of the rational n/d, d > 0
Trunc(n, d) == IF n >= 0 THEN n \div d ELSE -((-n) \div d)

Max(a, b) == IF a >= b THEN a ELSE b
Min(a, b) == IF a <= b THEN a ELSE b

\* numpy slice a[s:e] for 0 <= s, e <= len(a)
Slice(a, s, e) == IF s >= e THEN <<>> ELSE SubSeq(a, s + 1, e)

\* the buffer is not in use (the behaviours of the services)
BufferIdle ==
  /\ sample_rate = 1 /\ max_samples = 0 /\ buffer = <<>> /\ hist = <<>>
  /\ total = 0 /\ lastOp = [name |-> "init", off2 |-> 0, dur2 |-> 0]
  /\ chunk = <<>>

\* AudioBuffer(sample_rate, max_duration), max_duration = d2 / 2 seconds
BufferNew ==
  /\ sample_rate \in {1, 2}
  /\ \E d2 \in 0..MaxDur2 : max_samples = Trunc(sample_rate * d2, 2)
  /\ buffer = <<>> /\ hist = <<>> /\ total = 0
  /\ lastOp = [name |-> "init", off2 |-> 0, dur2 |-> 0]
  /\ chunk = <<>>

\* self._lock: set to False by __init__ and never assigned again
buf_lock == FALSE

\* a[-m:] for m >= 0; -0 is 0, so a[-0:] is all of a
LastSlice(a, m) ==
  IF m = 0 THEN a ELSE SubSeq(a, Max(Len(a) - m, 0) + 1, Len(a))

\* the buffer after append(data)
Appended(buf, data) ==
  LET cat == buf \o data
  IN  IF Len(cat) > max_samples THEN LastSlice(cat, max_samples) ELSE cat

\* append(data): data is the next n samples of the stream, numbered in the
\* order they are appended
append(n) ==
  /\ total + n <= MaxTotal
  /\ LET data == [i \in 1..n |-> total + i]
     IN  /\ buffer' = IF buf_lock THEN buffer ELSE Appended(buffer, data)
         /\ hist' = hist \o data
  /\ total' = total + n
  /\ lastOp' = [name |-> "append", off2 |-> 0, dur2 |-> 0]
  /\ chunk' = <<>>
  /\ UNCHANGED <<sample_rate, max_samples, svars, xvars>>

\* get_chunk without the lower clamp: a negative start_sample counts from
\* the end of the array, as a negative index does
ChunkOf_Wrap(buf, o2, d2) ==
  LET start_sample == Trunc(2 * Len(buf) - o2 * sample_rate, 2)
      end_sample == Trunc(2 * start_sample + d2 * sample_rate, 2)
      s == IF start_sample < 0 THEN Max(0, Len(buf) + start_sample)
           ELSE start_sample
      e == Min(Len(buf), end_sample)
  IN  IF s >= e THEN <<>> ELSE Slice(buf, s, e)

\* the value of get_chunk(start_offset = o2 / 2, duration = d2 / 2)
ChunkOf(buf, o2, d2) ==
  LET start_sample == Trunc(2 * Len(buf) - o2 * sample_rate, 2)
      end_sample == Trunc(2 * start_sample + d2 * sample_rate, 2)
      s == Max(0, start_sample)
      e == Min(Len(buf), end_sample)
  IN  IF s >= e THEN <<>> ELSE Slice(buf, s, e)

get_chunk(o2, d2) ==
  /\ chunk' = ChunkOf(buffer, o2, d2)
  /\ lastOp' = [name |-> "get_chunk", off2 |-> o2, dur2 |-> d2]
  /\ UNCHANGED <<sample_rate, max_samples, buffer, hist, total, svars, xvars>>

clear ==
  /\ buffer' = <<>>
  /\ hist' = <<>>
  /\ chunk' = <<>>
  /\ lastOp' = [name |-> "clear", off2 |-> 0, dur2 |-> 0]
  /\ UNCHANGED <<sample_rate, max_samples, total, svars, xvars>>

get_all ==
  /\ chunk' = buffer
  /\ lastOp' = [name |-> "get_all", off2 |-> 0, dur2 |-> 0]
  /\ UNCHANGED <<sample_rate, max_samples, buffer, hist, total, svars, xvars>>

\* ------------------------------------------- sentiment classification
\* the members of the SentimentLabel enum
SentimentLabel ==
  {"joy", "sadness", "anger", "fear", "love", "surprise", "neutral"}

EMOTION_MAPPING ==
  [l \in {"joy", "sadness", "anger", "fear", "love", "surprise"} |-> l]

\* self.EMOTION_MAPPING.get(label, SentimentLabel.NEUTRAL)
MappedLabel(label) ==
  IF label \in DOMAIN EMOTION_MAPPING THEN EMOTION_MAPPING[label]
  ELSE "neutral"

\* the label strings a classifier reports: labels of the lookup table,
\* "neutral", and one label the table does not know
RawLabels == {"joy", "sadness", "neutral", "disgust"}

\* a classifier output: at most MaxOut entries, no label twice, any order
ClassifierOutputs ==
  LET Entry == [label : RawLabels, score : 1..MaxScore]
      Lists == UNION {[1..n -> Entry] : n \in 0..MaxOut}
  IN  {r \in Lists :
         \A i, j \in 1..Len(r) : r[i].label = r[j].label => i = j}

NoScores == [st |-> "none", d |-> <<>>]
NoDominant == [st |-> "none", label |-> "none", score |-> 0]

\* no classification is under way (the behaviours of the services)
ClassifierIdle ==
  /\ results = <<>> /\ nested = TRUE /\ all_scores = NoScores
  /\ dominant = NoDominant

\* a loaded service about to answer analyze(text) and
\* analyze_with_all_scores(text) for a non-blank text the classifier answers
\* with results
ClassifierNew ==
  /\ results \in ClassifierOutputs /\ nested \in BOOLEAN
  /\ all_scores = NoScores
  /\ dominant = NoDominant

\* "for result in results: all_scores[mapped] = score", entries i..Len(r)
RECURSIVE Extract(_, _, _)
Extract(r, i, acc) ==
  IF i > Len(r) THEN acc
  ELSE Extract(r, i + 1,
               [l \in DOMAIN acc \cup {MappedLabel(r[i].label)} |->
                  IF l = MappedLabel(r[i].label) THEN r[i].score ELSE acc[l]])

\* the distribution returned as the loop left it
EnsureAll_Skip(acc) == acc

\* "for label in SentimentLabel: if label not in all_scores: ... = 0.0"
EnsureAll(acc) ==
  [l \in DOMAIN acc \cup SentimentLabel |->
     IF l \in DOMAIN acc THEN acc[l] ELSE 0]

\* analyze_with_all_scores past its blank-text check: "results = results[0]"
\* takes the inner list of a nested output; of a flat output it takes the
\* first dict (or fails on an empty list), the loop then iterates over the
\* keys of that dict and result.get raises; the except wraps every exception
AllScoresOf(r, nst) ==
  IF nst
  THEN [st |-> "scores", d |-> EnsureAll(Extract(r, 1, <<>>))]
  ELSE [st |-> "RuntimeError", d |-> <<>>]

analyze_with_all_scores ==
  /\ all_scores = NoScores
  /\ all_scores' = AllScoresOf(results, nested)
  /\ UNCHANGED <<results, nested, dominant, svars, bvars, fvars, ovars>>

\* "sorted(results, key=lambda x: x["score"], reverse=True)": a stable sort,
\* entries of equal score keep their order
SortedByScore(r) ==
  LET Rank(i) ==
        Cardinality({j \in 1..Len(r) : r[j].score > r[i].score})
        + Cardinality({j \in 1..i : r[j].score = r[i].score})
  IN  [k \in 1..Len(r) |-> r[CHOOSE i \in 1..Len(r) : Rank(i) = k]]

\* "max(scores, key=scores.get)" over a dict filled in the order of r: the
\* first key, in that order, whose score no other exceeds
MaxKey(r) ==
  r[CHOOSE i \in 1..Len(r) :
      /\ \A j \in 1..Len(r) : r[j].score <= r[i].score
      /\ \A j \in 1..(i - 1) : r[j].score < r[i].score]

Sentiment(l, sc) == [st |-> "result", label |-> l, score |-> sc]

\* lines 171-187: the dominant entry of the scores, (neutral, 1.0) when
\* there are none, its label mapped through EMOTION_MAPPING
DominantOf(r) ==
  IF Len(r) = 0 THEN Sentiment(MappedLabel("neutral"), 10)
  ELSE Sentiment(MappedLabel(MaxKey(SortedByScore(r)).label),
                 MaxKey(SortedByScore(r)).score)

\* analyze past its blank-text check, lines 148-191: a non-empty outer list
\* whose first element is a list is replaced by that inner list, and
\* "results[0]" of an empty inner list raises IndexError, which the except
\* wraps; an empty flat list gives no scores
AnalyzeOf(r, nst) ==
  IF nst /\ Len(r) = 0
  THEN [NoDominant EXCEPT !.st = "RuntimeError"]
  ELSE DominantOf(r)

analyze ==
  /\ dominant = NoDominant
  /\ dominant' = AnalyzeOf(results, nested)
  /\ UNCHANGED <<results, nested, all_scores, svars, bvars, fvars, ovars>>

\* ------------------------------------------------ files: validation
Wav == <<".", "w", "a", "v">>

\* the keys of AUDIO_FORMATS
AUDIO_FORMATS ==
  {Wav, <<".", "m", "p", "3">>, <<".", "w", "e", "b", "m">>,
   <<".", "o", "g", "g">>, <<".", "f", "l", "a", "c">>,
   <<".", "m", "4", "a">>}

\* the extensions of the files validated: lower, upper and mixed case of an
\* allowed one, an extension outside the list, and no extension
Suffixes ==
  {Wav, <<".", "W", "A", "V">>, <<".", "W", "a", "v">>,
   <<".", "m", "p", "3">>, <<".", "M", "P", "3">>,
   <<".", "t", "x", "t">>, <<>>}

\* the allowed_formats a caller passes: the default and custom lists, one
\* of them written in upper case
AllowedLists ==
  {AUDIO_FORMATS, {Wav}, {<<".", "W", "A", "V">>},
   {Wav, <<".", "M", "P", "3">>}}

\* str.lower() on the letters that occur
LowerChar(c) ==
  CASE c = "W" -> "w" [] c = "A" -> "a" [] c = "V" -> "v"
    [] c = "M" -> "m" [] c = "P" -> "p" [] OTHER -> c

Lower(str) == [i \in 1..Len(str) |-> LowerChar(str[i])]

\* f"{file_size_mb:.1f}": the size in tenths of a MB, rounded to nearest (a
\* multiple of 1/25 MB is never half way between two tenths)
Tenths(size) == (4 * size + 5) \div 10

NoV == [st |-> "none", valid |-> FALSE, why |-> "none", shown |-> <<>>]
Verdict(ok, w, sh) ==
  [st |-> "returned", valid |-> ok, why |-> w, shown |-> sh]

NoC == [st |-> "none", path |-> "none", duration |-> 0, inspected |-> FALSE]

\* no file operation is under way (the behaviours of the services)
FilesIdle ==
  /\ fop = "idle" /\ fpc = "idle" /\ suffix = <<>>
  /\ allowed_formats = AUDIO_FORMATS /\ max_size_mb = 50 /\ st_size = 0
  /\ disk = {} /\ temp_path = "upload" /\ vanished = FALSE
  /\ vres = NoV /\ cres = NoC /\ tool = "none" /\ fallback = FALSE
  /\ fres = "none"

\* validate_audio_file returns r, to its caller or to analyze_upload
VReturn(r) ==
  /\ vres' = r
  /\ fpc' = IF fop = "validate" THEN "done" ELSE "u_validated"

\* "if not file_path.exists()"
VExists ==
  /\ fpc = "v_exists"
  /\ IF "upload" \notin disk
     THEN VReturn(Verdict(FALSE, "not_found", <<>>))
     ELSE fpc' = "v_suffix" /\ vres' = vres
  /\ UNCHANGED <<finputs, disk, temp_path, vanished, cres, tool, fallback,
                 fres, svars, bvars, cvars, ovars>>

\* "suffix = file_path.suffix.lower(); if suffix not in allowed_formats"
VSuffix ==
  /\ fpc = "v_suffix"
  /\ IF Lower(suffix) \notin allowed_formats
     THEN VReturn(Verdict(FALSE, "unsupported", <<>>))
     ELSE fpc' = "v_size" /\ vres' = vres
  /\ UNCHANGED <<finputs, disk, temp_path, vanished, cres, tool, fallback,
                 fres, svars, bvars, cvars, ovars>>

\* validate_audio_file returning valid whatever the size
VSize_NoLimit ==
  /\ fpc = "v_size"
  /\ IF "upload" \notin disk
     THEN VReturn([NoV EXCEPT !.st = "FileNotFoundError"])
     ELSE VReturn(Verdict(TRUE, "", <<>>))
  /\ UNCHANGED <<finputs, disk, temp_path, vanished, cres, tool, fallback,
                 fres, svars, bvars, cvars, ovars>>

\* "file_size_mb = file_path.stat().st_size / (1024 * 1024)": stat raises
\* on a missing file; "if file_size_mb > max_size_mb"
VSize ==
  /\ fpc = "v_size"
  /\ IF "upload" \notin disk
     THEN VReturn([NoV EXCEPT !.st = "FileNotFoundError"])
     ELSE IF st_size > 25 * max_size_mb
          THEN VReturn(Verdict(FALSE, "too_large",
                               <<Tenths(st_size), max_size_mb>>))
          ELSE VReturn(Verdict(TRUE, "", <<>>))
  /\ UNCHANGED <<finputs, disk, temp_path, vanished, cres, tool, fallback,
                 fres, svars, bvars, cvars, ovars>>

\* another actor removes the file between the existence check and the size
\* check
Vanish ==
  /\ fpc \in {"v_suffix", "v_size"}
  /\ "upload" \in disk
  /\ disk' = disk \ {"upload"}
  /\ vanished' = TRUE
  /\ UNCHANGED <<finputs, fpc, temp_path, vres, cres, tool, fallback, fres,
                 svars, bvars, cvars, ovars>>

\* ------------------------------------------------ files: conversion
\* convert_to_wav raises AudioProcessingError, to its caller or to
\* analyze_upload
CvRaise ==
  /\ cres' = [NoC EXCEPT !.st = "AudioProcessingError"]
  /\ fpc' = IF fop = "convert" THEN "done" ELSE "u_converted"

\* subprocess.run(cmd, timeout=60): the binary is missing (FileNotFoundError,
\* the inner except calls the fallback), or the transcoder runs and exits
\* with 0, exits with another code, or is killed at the deadline; a run that
\* fails may have written part of the output file. onError is where a failed
\* run continues
CvStep(onError) ==
  /\ fpc = "c_run"
  /\ \E o \in {"missing", "ok", "nonzero", "timeout"} : \E wrote \in BOOLEAN :
       /\ tool' = o
       /\ CASE o = "missing" ->
                 /\ ~wrote
                 /\ fpc' = "c_fallback"
                 /\ UNCHANGED <<disk, cres>>
            [] o = "ok" ->
                 /\ wrote
                 /\ disk' = disk \cup {"wav"}
                 /\ fpc' = "c_duration"
                 /\ cres' = cres
            [] OTHER ->
                 /\ disk' = IF wrote THEN disk \cup {"wav"} ELSE disk
                 /\ IF onError = "raise"
                    THEN CvRaise
                    ELSE fpc' = onError /\ cres' = cres
  /\ UNCHANGED <<finputs, temp_path, vanished, vres, fallback, fres, svars,
                 bvars, cvars, ovars>>

\* a conversion that falls back to the library on every failure of the run
CvRun_FallbackOnError == CvStep("c_fallback")

\* lines 125-135: a non-zero exit raises AudioProcessingError, which like
\* TimeoutExpired passes the inner except and is wrapped by the outer one
CvRun == CvStep("raise")

\* _convert_with_scipy: writes the output, or fails (possibly after writing
\* part of it) with AudioProcessingError
CvFallback ==
  /\ fpc = "c_fallback"
  /\ fallback' = TRUE
  /\ \E ok \in BOOLEAN : \E wrote \in BOOLEAN :
       IF ok
       THEN /\ wrote
            /\ disk' = disk \cup {"wav"}
            /\ fpc' = "c_duration"
            /\ cres' = cres
       ELSE /\ disk' = IF wrote THEN disk \cup {"wav"} ELSE disk
            /\ CvRaise
  /\ UNCHANGED <<finputs, temp_path, vanished, vres, tool, fres, svars, bvars,
                 cvars, ovars>>

\* get_audio_duration: the duration read from the file, or 0.0 when reading
\* it raises (the except logs a warning and returns 0.0)
get_audio_duration(readable, d) == IF readable THEN d ELSE 0

\* "duration = get_audio_duration(output_path)"; "return output_path,
\* duration"; inspected records whether the file could be read
CvDuration ==
  /\ fpc = "c_duration"
  /\ \E readable \in BOOLEAN : \E d \in {0, 1} :
       cres' = [st |-> "returned", path |-> "wav",
                duration |-> get_audio_duration(readable, d),
                inspected |-> readable]
  /\ fpc' = IF fop = "convert" THEN "done" ELSE "u_converted"
  /\ UNCHANGED <<finputs, disk, temp_path, vanished, vres, tool, fallback,
                 fres, svars, bvars, cvars, ovars>>

\* ------------------------------------------------ files: analyze_upload
\* an exception reaches the except clauses: the response is chosen and the
\* finally block runs
UExcept(code) == fres' = code /\ fpc' = "u_finally"

\* "audio_file.save(str(temp_path))"; a save that fails may leave the file
USave ==
  /\ fpc = "u_save"
  /\ \E ok \in BOOLEAN : \E wrote \in BOOLEAN :
       IF ok
       THEN /\ wrote
            /\ disk' = disk \cup {"upload"}
            /\ fpc' = "v_exists"
            /\ fres' = fres
       ELSE /\ disk' = IF wrote THEN disk \cup {"upload"} ELSE disk
            /\ UExcept(500)
  /\ UNCHANGED <<finputs, temp_path, vanished, vres, cres, tool, fallback,
                 svars, bvars, cvars, ovars>>

\* lines 158-168: an invalid file raises AudioProcessingError; a file that
\* is not a WAV is converted
UValidated ==
  /\ fpc = "u_validated"
  /\ IF vres.st # "returned" THEN UExcept(500)
     ELSE IF ~vres.valid THEN UExcept(400)
     ELSE /\ fpc' = IF Lower(suffix) # Wav THEN "c_run" ELSE "u_models"
          /\ fres' = fres
  /\ UNCHANGED <<finputs, disk, temp_path, vanished, vres, cres, tool,
                 fallback, svars, bvars, cvars, ovars>>

\* "wav_path, duration = convert_to_wav(temp_path)" returned or raised
UConverted ==
  /\ fpc = "u_converted"
  /\ IF cres.st # "returned" THEN UExcept(400)
     ELSE fpc' = "u_unlink" /\ fres' = fres
  /\ UNCHANGED <<finputs, disk, temp_path, vanished, vres, cres, tool,
                 fallback, svars, bvars, cvars, ovars>>

\* "temp_path.unlink(); temp_path = wav_path": the removal of the original
\* succeeds, or raises and leaves the original
UUnlink ==
  /\ fpc = "u_unlink"
  /\ \E ok \in BOOLEAN :
       IF ok
       THEN /\ disk' = disk \ {temp_path}
            /\ temp_path' = cres.path
            /\ fpc' = "u_models"
            /\ fres' = fres
       ELSE /\ UExcept(500)
            /\ UNCHANGED <<disk, temp_path>>
  /\ UNCHANGED <<finputs, vanished, vres, cres, tool, fallback, svars, bvars,
                 cvars, ovars>>

\* lines 171-203: the loads, transcribe and analyze_complete return, or one
\* of them raises
UModels ==
  /\ fpc = "u_models"
  /\ \E code \in {200, 500} : UExcept(code)
  /\ UNCHANGED <<finputs, disk, temp_path, vanished, vres, cres, tool,
                 fallback, svars, bvars, cvars, ovars>>

\* finally: "if temp_path.exists(): temp_path.unlink()"
UFinally ==
  /\ fpc = "u_finally"
  /\ disk' = disk \ {temp_path}
  /\ fpc' = "done"
  /\ UNCHANGED <<finputs, temp_path, vanished, vres, cres, tool, fallback,
                 fres, svars, bvars, cvars, ovars>>

\* ------------------------------------------------ files: audio_to_base64
\* "with tempfile.NamedTemporaryFile(suffix=".wav", delete=False) as tmp"
BCreate ==
  /\ fpc = "b_create"
  /\ disk' = disk \cup {"tmp"}
  /\ fpc' = "b_write"
  /\ UNCHANGED <<finputs, temp_path, vanished, vres, cres, tool, fallback,
                 fres, svars, bvars, cvars, ovars>>

\* "wav.write(tmp.name, ...)" returns, or raises out of the function
BWrite ==
  /\ fpc = "b_write"
  /\ \E ok \in BOOLEAN :
       IF ok THEN fpc' = "b_read" /\ fres' = fres
       ELSE fpc' = "done" /\ fres' = "OSError"
  /\ UNCHANGED <<finputs, disk, temp_path, vanished, vres, cres, tool,
                 fallback, svars, bvars, cvars, ovars>>

\* "with open(tmp.name, "rb") as f: ... f.read()" returns, or raises out of
\* the function
BRead ==
  /\ fpc = "b_read"
  /\ \E ok \in BOOLEAN :
       IF ok THEN fpc' = "b_unlink" /\ fres' = fres
       ELSE fpc' = "done" /\ fres' = "OSError"
  /\ UNCHANGED <<finputs, disk, temp_path, vanished, vres, cres, tool,
                 fallback, svars, bvars, cvars, ovars>>

\* "os.unlink(tmp.name)"; "return audio_b64"
BUnlink ==
  /\ fpc = "b_unlink"
  /\ disk' = disk \ {"tmp"}
  /\ fpc' = "done"
  /\ fres' = "audio_b64"
  /\ UNCHANGED <<finputs, temp_path, vanished, vres, cres, tool, fallback,
                 svars, bvars, cvars, ovars>>

\* ------------------------------------------------ files: callers
FileOps == {"validate", "convert", "upload", "b64"}

FileEntry(o) == CASE o = "validate" -> "v_exists"
                  [] o = "convert" -> "c_run"
                  [] o = "upload" -> "u_save"
                  [] OTHER -> "b_create"

\* the sizes of the files validated against a limit of m MB: empty, just
\* below, at, just above and well above the limit
Sizes(m) == {0, 25 * m - 1, 25 * m, 25 * m + 1, 25 * m + 30}

\* one call of validate_audio_file(path, max_size_mb, allowed_formats) on a
\* path that may exist, of convert_to_wav(path) on an existing file, of
\* analyze_upload (which validates with the defaults) or of audio_to_base64
FilesNew ==
  /\ fop \in FileOps
  /\ fpc = FileEntry(fop)
  /\ suffix \in (IF fop = "b64" THEN {Wav} ELSE Suffixes)
  /\ allowed_formats
       \in (IF fop = "validate" THEN AllowedLists ELSE {AUDIO_FORMATS})
  /\ max_size_mb \in (IF fop = "validate" THEN {1, 50} ELSE {50})
  /\ st_size \in (IF fop \in {"validate", "upload"} THEN Sizes(max_size_mb)
                  ELSE {0})
  /\ disk \in (CASE fop = "validate" -> {{}, {"upload"}}
                 [] fop = "convert" -> {{"upload"}}
                 [] OTHER -> {{}})
  /\ temp_path = "upload" /\ vanished = FALSE
  /\ vres = NoV /\ cres = NoC /\ tool = "none" /\ fallback = FALSE
  /\ fres = "none"

\* ------------------------------------------- AudioBuffer, shared
\* no thread is inside append
SharedIdle == apc = [t \in Threads |-> "idle"] /\ secs2 = 0

\* append, line 428: "self.buffer = np.concatenate([self.buffer, data])",
\* after the check of self._lock
AppendCat(t, n) ==
  /\ apc[t] = "idle"
  /\ total + n <= MaxTotal
  /\ LET data == [i \in 1..n |-> total + i]
     IN  /\ buffer' = IF buf_lock THEN buffer ELSE buffer \o data
         /\ hist' = hist \o data
  /\ apc' = [apc EXCEPT ![t] = IF buf_lock THEN "idle" ELSE "trim"]
  /\ total' = total + n
  /\ UNCHANGED <<sample_rate, max_samples, lastOp, chunk, secs2, svars,
                 cvars, fvars, rvars, pvars>>

\* append, lines 431-432: "if len(self.buffer) > self.max_samples:
\* self.buffer = self.buffer[-self.max_samples:]"
AppendTrim(t) ==
  /\ apc[t] = "trim"
  /\ buffer' = IF Len(buffer) > max_samples
               THEN LastSlice(buffer, max_samples) ELSE buffer
  /\ apc' = [apc EXCEPT ![t] = "idle"]
  /\ UNCHANGED <<sample_rate, max_samples, hist, total, lastOp, chunk, secs2,
                 svars, cvars, fvars, rvars, pvars>>

\* length_seconds: len(self.buffer) / self.sample_rate
length_seconds ==
  /\ secs2' = (2 * Len(buffer)) \div sample_rate
  /\ lastOp' = [name |-> "length_seconds", off2 |-> 0, dur2 |-> 0]
  /\ UNCHANGED <<sample_rate, max_samples, buffer, hist, total, chunk, apc,
                 svars, cvars, fvars, rvars, pvars>>

\* ------------------------------------------------------ remove_silence
\* no call of remove_silence (the other behaviours)
SilenceIdle ==
  /\ audio_data = <<>> /\ non_silent = {} /\ frame_length = 0
  /\ trimmed = <<>> /\ rpc = "idle"

\* remove_silence(audio_data, frame_length = pad): "indices" is any set of
\* positions of audio_data, as the envelope and the threshold decide
SilenceNew ==
  /\ \E n \in 0..MaxAudio : audio_data = [i \in 1..n |-> i]
  /\ non_silent \in SUBSET (0..(Len(audio_data) - 1))
  /\ frame_length \in 0..MaxFrame
  /\ trimmed = <<>> /\ rpc = "call"

\* lines 256-264: the input when nothing is above the threshold, else
\* audio_data[start:end]
Trimmed(a, indices, pad) ==
  IF indices = {} THEN a
  ELSE LET first == CHOOSE i \in indices : \A j \in indices : i <= j
           last == CHOOSE i \in indices : \A j \in indices : j <= i
           start == Max(0, first - pad)
           end == Min(Len(a), last + pad)
       IN  Slice(a, start, end)

remove_silence ==
  /\ rpc = "call"
  /\ trimmed' = Trimmed(audio_data, non_silent, frame_length)
  /\ rpc' = "done"
  /\ UNCHANGED <<audio_data, non_silent, frame_length, svars, bvars, cvars,
                 fvars, avars, pvars>>

\* ---------------------------------------- concurrent convert_to_wav
\* the inputs: files in two directories, a path being directory, stem and
\* suffix
InPaths == [dir : {"a", "b"}, stem : 1..MaxStems, ext : {"mp3", "ogg"}]

NoPath == [dir |-> "none", name |-> <<>>, ext |-> "none"]

\* lines 101-102: Path(tempfile.gettempdir()) / f"{input_path.stem}_converted.wav"
DefaultOutput(p) ==
  [dir |-> "tmp", name |-> <<p.stem, "_converted">>, ext |-> "wav"]

OutPaths == {DefaultOutput(p) : p \in InPaths}

\* no conversion is running (the other behaviours)
ConvIdle ==
  /\ in_path = [t \in Threads |-> NoPath]
  /\ out_path = [t \in Threads |-> NoPath]
  /\ ppc = [t \in Threads |-> "idle"]
  /\ tmpfiles = [o \in OutPaths |-> 0]
  /\ measured = [t \in Threads |-> 0]
  /\ deleted = [t \in Threads |-> 0]

\* every thread calls convert_to_wav(input_path) on a file of its own
ConvNew ==
  /\ in_path \in [Threads -> InPaths]
  /\ \A t, u \in Threads : t # u => in_path[t] # in_path[u]
  /\ out_path = [t \in Threads |-> NoPath]
  /\ ppc = [t \in Threads |-> "c_path"]
  /\ tmpfiles = [o \in OutPaths |-> 0]
  /\ measured = [t \in Threads |-> 0]
  /\ deleted = [t \in Threads |-> 0]

\* lines 99-104: output_path is None
PcPath(t) ==
  /\ ppc[t] = "c_path"
  /\ out_path' = [out_path EXCEPT ![t] = DefaultOutput(in_path[t])]
  /\ ppc' = [ppc EXCEPT ![t] = "c_run"]
  /\ UNCHANGED <<in_path, tmpfiles, measured, deleted, svars, bvars, cvars,
                 fvars, rvars, avars>>

\* lines 106-135: "ffmpeg -y ... output_path" or the fallback writes the
\* output, replacing a file that is there; a run that fails may have
\* written it and raises AudioProcessingError
PcRun(t) ==
  /\ ppc[t] = "c_run"
  /\ \E ok \in BOOLEAN : \E wrote \in BOOLEAN :
       /\ ok => wrote
       /\ tmpfiles' = IF wrote THEN [tmpfiles EXCEPT ![out_path[t]] = t]
                      ELSE tmpfiles
       /\ ppc' = [ppc EXCEPT ![t] = IF ok THEN "c_duration" ELSE "done"]
  /\ UNCHANGED <<in_path, out_path, measured, deleted, svars, bvars, cvars,
                 fvars, rvars, avars>>

\* lines 138-140: get_audio_duration(output_path) reads the file that is at
\* output_path now; "return output_path, duration"
PcDuration(t) ==
  /\ ppc[t] = "c_duration"
  /\ measured' = [measured EXCEPT ![t] = tmpfiles[out_path[t]]]
  /\ ppc' = [ppc EXCEPT ![t] = "u_finally"]
  /\ UNCHANGED <<in_path, out_path, tmpfiles, deleted, svars, bvars, cvars,
                 fvars, rvars, avars>>

\* analyze_upload, lines 165-166 and 220-226: temp_path = wav_path, and the
\* finally block removes temp_path if it exists
PcCleanup(t) ==
  /\ ppc[t] = "u_finally"
  /\ deleted' = [deleted EXCEPT ![t] = tmpfiles[out_path[t]]]
  /\ tmpfiles' = [tmpfiles EXCEPT ![out_path[t]] = 0]
  /\ ppc' = [ppc EXCEPT ![t] = "done"]
  /\ UNCHANGED <<in_path, out_path, measured, svars, bvars, cvars, fvars,
                 rvars, avars>>

\* the components no behaviour of the services, the buffer, the classifier
\* or the file operations uses
OthersIdle == SilenceIdle /\ SharedIdle /\ ConvIdle

\* ----------------------------------------------------- service lifecycle
ServiceStart ==
  /\ kind \in Kinds
  /\ instance = FALSE /\ initialized = FALSE /\ clsLock = 0 /\ imported = FALSE
  /\ model = 0 /\ tokenizer = 0 /\ classifier = 0
  /\ device = "unset" /\ load_time = 0 /\ model_loaded = FALSE
  /\ nSeq = 0 /\ nDev = 0 /\ nInst = 0 /\ nRec = 0 /\ nNew = 0 /\ nInitBody = 0
  /\ calls = 0
  /\ pc = [t \in Threads |-> IF t = 1 THEN "new_check" ELSE "idle"]
  /\ op = [t \in Threads |-> IF t = 1 THEN "construct" ELSE "none"]
  /\ arg = [t \in Threads |-> FALSE]
  /\ force = [t \in Threads |-> FALSE]
  /\ cont = [t \in Threads |-> "done"]
  /\ myid = [t \in Threads |-> 0]
  /\ staged = [t \in Threads |-> FALSE]
  /\ exc = [t \in Threads |-> "none"]
  /\ res = [t \in Threads |-> NoRes]
  /\ afterUnload = FALSE

Init ==
  ServiceStart /\ BufferIdle /\ ClassifierIdle /\ FilesIdle /\ OthersIdle

Goto(t, p) == pc' = [pc EXCEPT ![t] = p]

\* the call of thread t returns r
Return(t, r) ==
  /\ pc' = [pc EXCEPT ![t] = "done"]
  /\ res' = [res EXCEPT ![t] = r]

\* thread t is inside the inner try block of transcribe_numpy: at the write
\* of the samples or in the self.transcribe call, its lazy load included
InTry(t) ==
  /\ op[t] = "transcribe_numpy"
  /\ \/ pc[t] \in {"np_write", "inf_check", "inf_arg", "inf_invoke"}
     \/ cont[t] = "inf_arg"

\* exception e leaves the function thread t is in: inside the inner try of
\* transcribe_numpy it runs the finally block and is wrapped by the outer
\* except; anywhere else it reaches the caller as it is
Raise(t, e) ==
  IF InTry(t)
  THEN /\ Goto(t, "np_cleanup")
       /\ exc' = [exc EXCEPT ![t] = e]
       /\ res' = res
  ELSE /\ Return(t, Res(e))
       /\ exc' = exc

\* transcribe / analyze returns r normally
Complete(t, r) ==
  IF op[t] = "transcribe_numpy"
  THEN /\ Goto(t, "np_cleanup")
       /\ res' = res
  ELSE Return(t, Res(r))

\* load_model returns normally, to the caller or to the inference call that
\* called it
LoadReturn(t) ==
  IF cont[t] = "done"
  THEN Return(t, Res("ok"))
  ELSE /\ Goto(t, cont[t])
       /\ res' = res

\* the inference call of thread t calls self.load_model() and continues at p
CallLoad(t, p) ==
  /\ Goto(t, "lm_check")
  /\ force' = [force EXCEPT ![t] = FALSE]
  /\ cont' = [cont EXCEPT ![t] = p]

\* ---- __new__ / __init__
NewCheck(t) ==
  /\ pc[t] = "new_check"
  /\ Goto(t, IF instance THEN "init_check" ELSE "new_lock")
  /\ UNCHANGED <<clsvars, fields, counters, op, arg, force, cont, myid,
                 staged, exc, res, calls, afterUnload, bvars, xvars>>

NewLock(t) ==
  /\ pc[t] = "new_lock"
  /\ clsLock = 0
  /\ clsLock' = t
  /\ Goto(t, "new_check2")
  /\ UNCHANGED <<kind, instance, initialized, imported, fields, counters, op,
                 arg, force, cont, myid, staged, exc, res, calls, afterUnload, bvars, xvars>>

NewCreate(t) ==
  /\ pc[t] = "new_check2"
  /\ IF instance
     THEN UNCHANGED <<instance, initialized, nNew>>
     ELSE /\ instance' = TRUE
          /\ initialized' = FALSE
          /\ nNew' = nNew + 1
  /\ clsLock' = 0
  /\ Goto(t, "init_check")
  /\ UNCHANGED <<kind, imported, fields, nSeq, nDev, nInst, nRec, nInitBody,
                 op, arg, force, cont, myid, staged, exc, res, calls, afterUnload, bvars, xvars>>

\* __init__ without its "if self._initialized: return"
InitCheck_Always(t) ==
  /\ pc[t] = "init_check"
  /\ Goto(t, "init_body") /\ res' = res
  /\ UNCHANGED <<clsvars, fields, counters, op, arg, force, cont, myid,
                 staged, exc, calls, afterUnload, bvars, xvars>>

InitCheck(t) ==
  /\ pc[t] = "init_check"
  /\ IF initialized
     THEN Return(t, Res("instance"))
     ELSE Goto(t, "init_body") /\ res' = res
  /\ UNCHANGED <<clsvars, fields, counters, op, arg, force, cont, myid,
                 staged, exc, calls, afterUnload, bvars, xvars>>

InitBody(t) ==
  /\ pc[t] = "init_body"
  /\ model' = 0 /\ tokenizer' = 0 /\ classifier' = 0
  /\ \E d \in {"auto", "cpu"} : device' = d
  /\ load_time' = 0
  /\ model_loaded' = FALSE
  /\ nInitBody' = nInitBody + 1
  /\ Goto(t, "init_flag")
  /\ UNCHANGED <<clsvars, nSeq, nDev, nInst, nRec, nNew, op, arg, force, cont,
                 myid, staged, exc, res, calls, afterUnload, bvars, xvars>>

InitFlag(t) ==
  /\ pc[t] = "init_flag"
  /\ initialized' = TRUE
  /\ Return(t, Res("instance"))
  /\ UNCHANGED <<kind, instance, clsLock, imported, fields, counters, op, arg,
                 force, cont, myid, staged, exc, calls, afterUnload, bvars, xvars>>

\* ---- load_model
\* load_model without its "already loaded" early return
LmCheck_Always(t) ==
  /\ pc[t] = "lm_check"
  /\ nSeq' = nSeq + 1
  /\ myid' = [myid EXCEPT ![t] = nSeq + 1]
  /\ Goto(t, "lm_device")
  /\ res' = res
  /\ UNCHANGED <<clsvars, fields, nDev, nInst, nRec, nNew, nInitBody, op, arg,
                 force, cont, staged, exc, calls, afterUnload, bvars, xvars>>

LmCheck(t) ==
  /\ pc[t] = "lm_check"
  /\ IF model_loaded /\ ~force[t]
     THEN /\ LoadReturn(t)
          /\ UNCHANGED <<nSeq, myid>>
     ELSE /\ nSeq' = nSeq + 1
          /\ myid' = [myid EXCEPT ![t] = nSeq + 1]
          /\ Goto(t, "lm_device")
          /\ res' = res
  /\ UNCHANGED <<clsvars, fields, nDev, nInst, nRec, nNew, nInitBody, op, arg,
                 force, cont, staged, exc, calls, afterUnload, bvars, xvars>>

LmDevice(t) ==
  /\ pc[t] = "lm_device"
  /\ \E d \in (IF device = "auto" THEN {"cuda", "cpu"} ELSE {device}) :
        device' = d
  /\ nDev' = nDev + 1
  /\ Goto(t, IF kind = "sentiment" THEN "lm_tok" ELSE "lm_model")
  /\ UNCHANGED <<clsvars, model, tokenizer, classifier, load_time,
                 model_loaded, nSeq, nInst, nRec, nNew, nInitBody, op, arg,
                 force, cont, myid, staged, exc, res, calls, afterUnload, bvars, xvars>>

LmTokenizer(t) ==
  /\ pc[t] = "lm_tok"
  /\ tokenizer' = myid[t]
  /\ Goto(t, "lm_model")
  /\ UNCHANGED <<clsvars, model, classifier, device, load_time, model_loaded,
                 counters, op, arg, force, cont, myid, staged, exc, res,
                 calls, afterUnload, bvars, xvars>>

LmModel(t) ==
  /\ pc[t] = "lm_model"
  /\ model' = myid[t]
  /\ nInst' = nInst + 1
  /\ Goto(t, IF kind = "sentiment" THEN "lm_to" ELSE "lm_time")
  /\ UNCHANGED <<clsvars, tokenizer, classifier, device, load_time,
                 model_loaded, nSeq, nDev, nRec, nNew, nInitBody, op, arg,
                 force, cont, myid, staged, exc, res, calls, afterUnload, bvars, xvars>>

LmTo(t) ==
  /\ pc[t] = "lm_to"
  /\ Goto(t, "lm_pipe")
  /\ UNCHANGED <<clsvars, fields, counters, op, arg, force, cont, myid,
                 staged, exc, res, calls, afterUnload, bvars, xvars>>

LmPipeline(t) ==
  /\ pc[t] = "lm_pipe"
  /\ classifier' = myid[t]
  /\ Goto(t, "lm_time")
  /\ UNCHANGED <<clsvars, model, tokenizer, device, load_time, model_loaded,
                 counters, op, arg, force, cont, myid, staged, exc, res,
                 calls, afterUnload, bvars, xvars>>

LmTime(t) ==
  /\ pc[t] = "lm_time"
  /\ load_time' = myid[t]
  /\ nRec' = nRec + 1
  /\ Goto(t, "lm_flag")
  /\ UNCHANGED <<clsvars, model, tokenizer, classifier, device, model_loaded,
                 nSeq, nDev, nInst, nNew, nInitBody, op, arg, force, cont,
                 myid, staged, exc, res, calls, afterUnload, bvars, xvars>>

LmFlag(t) ==
  /\ pc[t] = "lm_flag"
  /\ model_loaded' = TRUE
  /\ LoadReturn(t)
  /\ UNCHANGED <<clsvars, model, tokenizer, classifier, device, load_time,
                 counters, op, arg, force, cont, myid, staged, exc, calls,
                 afterUnload, bvars, xvars>>

\* a failing load that marks the service as not loaded
LmFail_Reset(t) ==
  /\ pc[t] \in {"lm_tok", "lm_model", "lm_to", "lm_pipe"}
  /\ model_loaded' = FALSE
  /\ Raise(t, "RuntimeError")
  /\ UNCHANGED <<clsvars, model, tokenizer, classifier, device, load_time,
                 counters, op, arg, force, cont, myid, staged, calls,
                 afterUnload, bvars, xvars>>

\* a step inside the try block of load_model raises: logged and re-raised
\* as RuntimeError, nothing is undone
LmFail(t) ==
  /\ pc[t] \in {"lm_tok", "lm_model", "lm_to", "lm_pipe"}
  /\ Raise(t, "RuntimeError")
  /\ UNCHANGED <<clsvars, fields, counters, op, arg, force, cont, myid,
                 staged, calls, afterUnload, bvars, xvars>>

\* ---- transcribe / analyze / analyze_with_all_scores
InferenceOps == {"transcribe", "transcribe_numpy", "analyze",
                 "analyze_with_all_scores"}

\* an inference call without the lazy load
InfCheck_NoLoad(t) ==
  /\ pc[t] = "inf_check"
  /\ Goto(t, "inf_arg")
  /\ UNCHANGED <<clsvars, fields, counters, op, arg, force, cont, myid,
                 staged, exc, res, calls, afterUnload, bvars, xvars>>

\* "if not self._model_loaded: self.load_model()"
InfCheck(t) ==
  /\ pc[t] = "inf_check"
  /\ IF model_loaded
     THEN Goto(t, "inf_arg") /\ UNCHANGED <<force, cont>>
     ELSE CallLoad(t, "inf_arg")
  /\ UNCHANGED <<clsvars, fields, counters, op, arg, myid, staged, exc, res,
                 calls, afterUnload, bvars, xvars>>

\* the check of the argument: the path exists (for transcribe_numpy the
\* path is the staged file), the text is not blank
InfArg(t) ==
  /\ pc[t] = "inf_arg"
  /\ IF (IF op[t] = "transcribe_numpy" THEN staged[t] ELSE arg[t])
     THEN Goto(t, "inf_invoke") /\ UNCHANGED <<res, exc>>
     ELSE CASE op[t] \in {"transcribe", "transcribe_numpy"} ->
                 Raise(t, "FileNotFoundError")
            [] op[t] = "analyze" ->
                 Raise(t, "ValueError")
            [] OTHER ->
                 Return(t, Res("zeros")) /\ exc' = exc
  /\ UNCHANGED <<clsvars, fields, counters, op, arg, force, cont, myid,
                 staged, calls, afterUnload, bvars, xvars>>

\* the handle the inference call invokes
Handle == IF kind = "whisper" THEN model ELSE classifier

\* self.model.transcribe(...) / self.classifier(text) returns; on a null
\* handle the call raises inside the try block
InfInvoke(t) ==
  /\ pc[t] = "inf_invoke"
  /\ IF Handle = 0
     THEN Raise(t, "RuntimeError")
     ELSE Complete(t, "result") /\ exc' = exc
  /\ UNCHANGED <<clsvars, fields, counters, op, arg, force, cont, myid,
                 staged, calls, afterUnload, bvars, xvars>>

\* the opaque model raises: wrapped as RuntimeError
InfFail(t) ==
  /\ pc[t] = "inf_invoke"
  /\ Handle # 0
  /\ Raise(t, "RuntimeError")
  /\ UNCHANGED <<clsvars, fields, counters, op, arg, force, cont, myid,
                 staged, calls, afterUnload, bvars, xvars>>

\* ---- transcribe_numpy
NpCheck(t) ==
  /\ pc[t] = "np_check"
  /\ IF model_loaded
     THEN Goto(t, "np_stage") /\ UNCHANGED <<force, cont>>
     ELSE CallLoad(t, "np_stage")
  /\ UNCHANGED <<clsvars, fields, counters, op, arg, myid, staged, exc, res,
                 calls, afterUnload, bvars, xvars>>

\* NamedTemporaryFile(delete=False) creates the staged file
NpStage(t) ==
  /\ pc[t] = "np_stage"
  /\ staged' = [staged EXCEPT ![t] = TRUE]
  /\ Goto(t, "np_write")
  /\ UNCHANGED <<clsvars, fields, counters, op, arg, force, cont, myid, exc,
                 res, calls, afterUnload, bvars, xvars>>

\* wavfile.write succeeds, then self.transcribe(temp_path, language)
NpWrite(t) ==
  /\ pc[t] = "np_write"
  /\ Goto(t, "inf_check")
  /\ UNCHANGED <<clsvars, fields, counters, op, arg, force, cont, myid,
                 staged, exc, res, calls, afterUnload, bvars, xvars>>

NpWriteFail(t) ==
  /\ pc[t] = "np_write"
  /\ Raise(t, "OSError")
  /\ UNCHANGED <<clsvars, fields, counters, op, arg, force, cont, myid,
                 staged, calls, afterUnload, bvars, xvars>>

\* another actor removes the staged file before transcribe looks for it
NpVanish(t) ==
  /\ pc[t] = "inf_check" /\ op[t] = "transcribe_numpy" /\ staged[t]
  /\ staged' = [staged EXCEPT ![t] = FALSE]
  /\ UNCHANGED <<clsvars, fields, counters, pc, op, arg, force, cont, myid,
                 exc, res, calls, afterUnload, bvars, xvars>>

\* a finally block that leaves the staged file where it is
NpCleanup_Keep(t) ==
  /\ pc[t] = "np_cleanup"
  /\ Return(t, Res(IF exc[t] = "none" THEN "result" ELSE "RuntimeError"))
  /\ exc' = [exc EXCEPT ![t] = "none"]
  /\ UNCHANGED <<clsvars, fields, counters, op, arg, force, cont, myid,
                 staged, calls, afterUnload, bvars, xvars>>

\* finally: remove the staged file if it exists; then return the result or
\* wrap the exception as RuntimeError
NpCleanup(t) ==
  /\ pc[t] = "np_cleanup"
  /\ staged' = [staged EXCEPT ![t] = FALSE]
  /\ Return(t, Res(IF exc[t] = "none" THEN "result" ELSE "RuntimeError"))
  /\ exc' = [exc EXCEPT ![t] = "none"]
  /\ UNCHANGED <<clsvars, fields, counters, op, arg, force, cont, myid,
                 calls, afterUnload, bvars, xvars>>

\* get_model_info loading the model when it is not loaded
GetModelInfo_Lazy(t) ==
  /\ pc[t] = "gi"
  /\ IF model_loaded
     THEN /\ Return(t, [st |-> "info", dev |-> device, lt |-> load_time])
          /\ UNCHANGED <<force, cont>>
     ELSE CallLoad(t, "gi") /\ res' = res
  /\ UNCHANGED <<clsvars, fields, counters, op, arg, myid, staged, exc,
                 calls, afterUnload, bvars, xvars>>

\* ---- get_model_info
GetModelInfo(t) ==
  /\ pc[t] = "gi"
  /\ Return(t, IF ~model_loaded
               THEN Res("not_loaded")
               ELSE [st |-> "info", dev |-> device, lt |-> load_time])
  /\ UNCHANGED <<clsvars, fields, counters, op, arg, force, cont, myid,
                 staged, exc, calls, afterUnload, bvars, xvars>>

\* ---- unload_model
UlCheck(t) ==
  /\ pc[t] = "ul_check"
  /\ IF model # 0
     THEN Goto(t, "ul_null") /\ res' = res
     ELSE Return(t, Res("ok"))
  /\ UNCHANGED <<clsvars, fields, counters, op, arg, force, cont, myid,
                 staged, exc, calls, afterUnload, bvars, xvars>>

\* del self.model ...; self.model = None ...
UlNull(t) ==
  /\ pc[t] = "ul_null"
  /\ model' = 0
  /\ IF kind = "sentiment"
     THEN tokenizer' = 0 /\ classifier' = 0
     ELSE UNCHANGED <<tokenizer, classifier>>
  /\ Goto(t, "ul_flag")
  /\ UNCHANGED <<clsvars, device, load_time, model_loaded, counters, op, arg,
                 force, cont, myid, staged, exc, res, calls, afterUnload,
                 bvars, xvars>>

\* unload_model without "self._model_loaded = False"
UlFlag_Keep(t) ==
  /\ pc[t] = "ul_flag"
  /\ Return(t, Res("ok"))
  /\ UNCHANGED <<clsvars, fields, counters, op, arg, force, cont, myid,
                 staged, exc, calls, afterUnload, bvars, xvars>>

UlFlag(t) ==
  /\ pc[t] = "ul_flag"
  /\ model_loaded' = FALSE
  /\ Return(t, Res("ok"))
  /\ UNCHANGED <<clsvars, model, tokenizer, classifier, device, load_time,
                 counters, op, arg, force, cont, myid, staged, exc, calls,
                 afterUnload, bvars, xvars>>

\* ---- callers
OpsOf(k) == {"construct", "load_model", "get_model_info", "unload_model"}
            \cup (IF k = "whisper"
                  THEN {"transcribe", "transcribe_numpy"}
                  ELSE {"analyze", "analyze_with_all_scores"})

Entry(o) == CASE o = "construct" -> "new_check"
              [] o = "load_model" -> "lm_check"
              [] o = "get_model_info" -> "gi"
              [] o = "unload_model" -> "ul_check"
              [] o = "transcribe_numpy" -> "np_check"
              [] OTHER -> "inf_check"

\* the values a caller can pass: force_reload for load_model, the existence
\* of the path for transcribe (the staged file of transcribe_numpy exists),
\* the text being non-blank for analyze
ArgsOf(o) == CASE o \in {"transcribe", "analyze", "analyze_with_all_scores"}
                    -> {<<TRUE, FALSE>>, <<FALSE, FALSE>>}
               [] o = "transcribe_numpy" -> {<<TRUE, FALSE>>}
               [] o = "load_model" -> {<<FALSE, FALSE>>, <<FALSE, TRUE>>}
               [] OTHER -> {<<FALSE, FALSE>>}

\* thread t calls o(a) once the module is imported
StartCall(t, o, a) ==
  /\ pc[t] = "idle"
  /\ imported
  /\ calls' = calls + 1
  /\ pc' = [pc EXCEPT ![t] = Entry(o)]
  /\ op' = [op EXCEPT ![t] = o]
  /\ arg' = [arg EXCEPT ![t] = a[1]]
  /\ force' = [force EXCEPT ![t] = a[2]]
  /\ cont' = [cont EXCEPT ![t] = "done"]
  /\ myid' = [myid EXCEPT ![t] = 0]
  /\ UNCHANGED <<clsvars, fields, counters, staged, exc, res, afterUnload,
                 bvars, xvars>>

\* any call, one of a run of at most MaxCalls calls
BeginCall(t) ==
  /\ calls < MaxCalls
  /\ \E o \in OpsOf(kind) : \E a \in ArgsOf(o) : StartCall(t, o, a)

\* any call, one of at most MaxConc calls that may overlap
BeginConc(t) ==
  /\ calls < MaxConc
  /\ \E o \in OpsOf(kind) : \E a \in ArgsOf(o) : StartCall(t, o, a)

\* a lifecycle call (no inference), one of at most MaxConc that may overlap
BeginLife(t) ==
  /\ calls < MaxConc
  /\ \E o \in {"construct", "load_model", "get_model_info", "unload_model"} :
       \E a \in ArgsOf(o) : StartCall(t, o, a)

\* first use: a non-forced load_model or an inference call
BeginFirstUse(t) ==
  /\ calls < MaxConc
  /\ \E o \in OpsOf(kind) \ {"construct", "unload_model", "get_model_info"} :
       \E a \in ArgsOf(o) : a[2] = FALSE /\ StartCall(t, o, a)

\* the caller takes the result; the module-level "x_service = XService()"
\* completes when its constructor call returns
Finish(t) ==
  /\ pc[t] = "done"
  /\ pc' = [pc EXCEPT ![t] = "idle"]
  /\ op' = [op EXCEPT ![t] = "none"]
  /\ arg' = [arg EXCEPT ![t] = FALSE]
  /\ force' = [force EXCEPT ![t] = FALSE]
  /\ cont' = [cont EXCEPT ![t] = "done"]
  /\ myid' = [myid EXCEPT ![t] = 0]
  /\ res' = [res EXCEPT ![t] = NoRes]
  /\ afterUnload' = (op[t] = "unload_model")
  /\ imported' = TRUE
  /\ UNCHANGED <<kind, instance, initialized, clsLock, fields, counters,
                 staged, exc, calls, bvars, xvars>>

Construct(t) ==
  \/ NewCheck(t) \/ NewLock(t) \/ NewCreate(t)
  \/ InitCheck(t) \/ InitBody(t) \/ InitFlag(t)

LoadOk(t) ==
  \/ LmCheck(t) \/ LmDevice(t) \/ LmTokenizer(t) \/ LmModel(t) \/ LmTo(t)
  \/ LmPipeline(t) \/ LmTime(t) \/ LmFlag(t)

Infer(t) ==
  \/ InfCheck(t) \/ InfArg(t) \/ InfInvoke(t) \/ InfFail(t)
  \/ NpCheck(t) \/ NpStage(t) \/ NpWrite(t) \/ NpWriteFail(t) \/ NpVanish(t)
  \/ NpCleanup(t)

Unload(t) == UlCheck(t) \/ UlNull(t) \/ UlFlag(t)

Step(t) ==
  \/ Construct(t) \/ LoadOk(t) \/ LmFail(t) \/ Infer(t)
  \/ GetModelInfo(t) \/ Unload(t) \/ Finish(t)

\* threads pre-empt each other between any two statements
Next == \E t \in Threads : BeginConc(t) \/ Step(t)
Spec == Init /\ [][Next]_vars

\* calls run one after the other: the importing thread is the only caller
NextSeq == BeginCall(1) \/ Step(1)
SpecSeq == Init /\ [][NextSeq]_vars

\* the lifecycle calls of a service, pre-empting each other
NextLife ==
  \E t \in Threads :
    \/ BeginLife(t) \/ Construct(t) \/ LoadOk(t) \/ LmFail(t)
    \/ GetModelInfo(t) \/ Unload(t) \/ Finish(t)
SpecLife == Init /\ [][NextLife]_vars

\* concurrent first use of a service: no unload, no forced reload, and the
\* load steps succeed
NextFirstUse ==
  \E t \in Threads :
    \/ BeginFirstUse(t) \/ Construct(t) \/ LoadOk(t) \/ Infer(t) \/ Finish(t)
SpecFirstUse == Init /\ [][NextFirstUse]_vars

\* one streaming session using its AudioBuffer
InitBuf ==
  /\ ServiceStart /\ kind = "whisper" /\ BufferNew /\ ClassifierIdle
  /\ FilesIdle /\ OthersIdle
NextBuf ==
  \/ \E n \in 0..MaxAppend : append(n)
  \/ \E o2 \in (-2)..MaxOff2 : \E d2 \in (-1)..MaxChunk2 : get_chunk(o2, d2)
  \/ clear
  \/ get_all
SpecBuf == InitBuf /\ [][NextBuf]_vars

\* the sentiment service, loaded, classifying one text
InitCls ==
  /\ ServiceStart /\ kind = "sentiment" /\ BufferIdle /\ FilesIdle
  /\ ClassifierNew /\ OthersIdle
NextCls == analyze \/ analyze_with_all_scores
SpecCls == InitCls /\ [][NextCls]_vars

\* one file operation, from its call to its return
InitFiles ==
  /\ ServiceStart /\ kind = "whisper" /\ BufferIdle /\ ClassifierIdle
  /\ FilesNew /\ OthersIdle
NextFiles ==
  \/ VExists \/ VSuffix \/ VSize \/ Vanish
  \/ CvRun \/ CvFallback \/ CvDuration
  \/ USave \/ UValidated \/ UConverted \/ UUnlink \/ UModels \/ UFinally
  \/ BCreate \/ BWrite \/ BRead \/ BUnlink
SpecFiles == InitFiles /\ [][NextFiles]_vars

\* one call of remove_silence
InitSilence ==
  /\ ServiceStart /\ kind = "whisper" /\ BufferIdle /\ ClassifierIdle
  /\ FilesIdle /\ SilenceNew /\ SharedIdle /\ ConvIdle
NextSilence == remove_silence
SpecSilence == InitSilence /\ [][NextSilence]_vars

\* threads sharing one AudioBuffer without synchronisation: appends in
\* their two steps, reads in between
InitShared == InitBuf
NextShared ==
  \/ \E t \in Threads : \E n \in 1..MaxAppend : AppendCat(t, n)
  \/ \E t \in Threads : AppendTrim(t)
  \/ get_all
  \/ \E o2 \in 0..MaxOff2 : \E d2 \in 0..MaxChunk2 : get_chunk(o2, d2)
  \/ length_seconds
SpecShared == InitShared /\ [][NextShared]_vars

\* concurrent requests, each converting its own file
InitConv ==
  /\ ServiceStart /\ kind = "whisper" /\ BufferIdle /\ ClassifierIdle
  /\ FilesIdle /\ SilenceIdle /\ SharedIdle /\ ConvNew
NextConv ==
  \E t \in Threads : PcPath(t) \/ PcRun(t) \/ PcDuration(t) \/ PcCleanup(t)
SpecConv == InitConv /\ [][NextConv]_vars

\* ------------------------------------------------------------------ claims

\* C1: concurrent first use of an unloaded service runs one load sequence in
\* total: one device selection, one model instantiation, one load duration
C1_LoadOnce == nSeq <= 1 /\ nDev <= 1 /\ nInst <= 1 /\ nRec <= 1

\* C2: a load_model call that fails leaves the service UNLOADED
C2_FailedLoadUnloaded ==
  \A t \in Threads :
    (pc[t] = "done" /\ op[t] = "load_model" /\ res[t].st = "RuntimeError")
    => ~model_loaded

\* C3: after any sequence of append and clear calls the buffer holds at most
\* max_samples samples, for every capacity including 0
C3_Capacity == Len(buffer) <= max_samples

\* C4: once more samples were appended than the capacity, the buffer holds
\* exactly the last max_samples samples appended, in their order
C4_DropOldest ==
  Len(hist) > max_samples =>
    buffer = SubSeq(hist, Len(hist) - max_samples + 1, Len(hist))

\* C5: get_chunk() with its defaults (start_offset 0, duration 2.0) on a
\* buffer holding exactly 2 seconds of samples returns all of them
C5_DefaultChunk ==
  (lastOp = [name |-> "get_chunk", off2 |-> 0, dur2 |-> 4]
     /\ Len(buffer) = 2 * sample_rate
     /\ Len(buffer) <= max_samples)
  => chunk = buffer

\* C6: an inference call on a service that is not loaded loads it first: past
\* its first check the call runs with the service LOADED, the model is never
\* invoked while UNLOADED, and a call that returns normally leaves it LOADED
C6_LazyLoad ==
  \A t \in Threads :
    /\ pc[t] \in {"inf_arg", "inf_invoke", "np_stage", "np_write"}
         => model_loaded
    /\ (pc[t] = "done" /\ op[t] \in InferenceOps
           /\ res[t].st \in {"result", "zeros"})
         => model_loaded

C6_Witness ==
  \E t \in Threads :
    /\ pc[t] = "done" /\ op[t] \in InferenceOps
    /\ res[t].st = "result" /\ myid[t] # 0

\* C7: when calls run one after the other, unload_model returns normally
\* and a get_model_info right after it returns exactly {status: not_loaded}
C7_UnloadThenInfo ==
  \A t \in Threads :
    /\ (pc[t] = "done" /\ op[t] = "unload_model")
         => (res[t] = Res("ok") /\ ~model_loaded)
    /\ (pc[t] = "done" /\ op[t] = "get_model_info" /\ afterUnload)
         => res[t] = Res("not_loaded")

C7_Witness ==
  \E t \in Threads :
    /\ pc[t] = "done" /\ op[t] = "get_model_info" /\ afterUnload
    /\ nRec >= 1 /\ res[t] = Res("not_loaded")

\* C8: get_model_info changes no field and starts no load; it returns
\* {status: not_loaded} exactly when the service is not loaded and otherwise
\* a snapshot with the device and the load duration
C8_InfoReadOnly ==
  [][\A t \in Threads :
       (pc[t] = "gi" /\ pc'[t] # "gi") =>
         /\ UNCHANGED <<fields, counters, clsvars, xvars>>
         /\ pc'[t] = "done"
         /\ res'[t] = IF model_loaded
                       THEN [st |-> "info", dev |-> device, lt |-> load_time]
                       ELSE Res("not_loaded")]_vars

C8_Witness ==
  \E t \in Threads :
    /\ pc[t] = "done" /\ op[t] = "get_model_info"
    /\ res[t].st = "info" /\ res[t].lt # 0 /\ res[t].dev \in {"cpu", "cuda"}

\* C9: every constructor call returns the one instance; the lifecycle fields
\* are initialised once, and no constructor step of a later call changes them
C9_Singleton ==
  [][/\ nNew' <= 1
     /\ nInitBody' <= 1
     /\ \A t \in Threads :
          (op[t] = "construct" /\ imported /\ pc'[t] # pc[t]) =>
            /\ UNCHANGED fields
            /\ instance' /\ initialized'
            /\ pc'[t] = "done" => res'[t] = Res("instance")]_vars

C9_Witness ==
  /\ model_loaded /\ imported
  /\ \E t \in Threads : op[t] = "construct" /\ pc[t] = "done"

\* C10: load_model(force_reload=False) on a LOADED service changes nothing
\* and runs no load step; load_model(force_reload=True) that returns has run
\* a load sequence of its own and recorded its load duration
C10_LoadNoop ==
  [][\A t \in Threads :
       /\ (pc[t] = "lm_check" /\ model_loaded /\ ~force[t]
             /\ pc'[t] # "lm_check")
            => (UNCHANGED <<fields, counters>> /\ pc'[t] = cont[t])
       /\ (pc'[t] = "done" /\ op'[t] = "load_model" /\ force'[t]
             /\ res'[t].st = "ok")
            => (myid'[t] = nSeq' /\ nSeq' > 0 /\ load_time' = myid'[t]
                /\ model' = myid'[t] /\ model_loaded')]_vars

C10_Witness ==
  \E t \in Threads :
    /\ pc[t] = "done" /\ op[t] = "load_model" /\ ~force[t]
    /\ res[t] = Res("ok") /\ myid[t] = 0 /\ model_loaded

\* C11: no temp file outlives its request: when analyze_upload returns, on
\* every exit path, neither the saved upload nor a WAV written by
\* convert_to_wav exists, and when audio_to_base64 returns or raises its
\* staged file does not exist
C11_NoTempFileLeft ==
  (fpc = "done" /\ fop \in {"upload", "b64"}) => disk = {}

\* C12: transcribe_numpy enters the transcribe call with the samples staged
\* in a temp file, and when it returns or raises (write failure, file not
\* found, load or model failure, success) the staged file no longer exists
C12_StagedRemoved ==
  [][\A t \in Threads :
       /\ (op[t] = "transcribe_numpy" /\ pc[t] # "inf_check"
             /\ pc'[t] = "inf_check")
            => (staged[t] /\ pc[t] = "np_write")
       /\ (op'[t] = "transcribe_numpy" /\ pc'[t] = "done")
            => ~staged'[t]]_vars

C12_Witness ==
  \E t \in Threads :
    /\ pc[t] = "done" /\ op[t] = "transcribe_numpy"
    /\ res[t].st = "result" /\ ~staged[t]

C12_WitnessNotFound ==
  \E t \in Threads :
    /\ pc[t] = "np_cleanup" /\ exc[t] = "FileNotFoundError" /\ ~staged[t]

\* C13: validate_audio_file checks, in this order and stopping at the first
\* failure, that the path exists, that its extension matches a member of the
\* allowed list whatever the letter case of either, and that its size is at
\* most max_size_mb; it returns (True, "") exactly when all three pass
C13_ValidateOrder ==
  (vres.st = "returned" /\ ~vanished) =>
    LET exists == "upload" \in disk
        extOk == \E a \in allowed_formats : Lower(a) = Lower(suffix)
        sizeOk == st_size <= 25 * max_size_mb
    IN  /\ vres.valid <=> (exists /\ extOk /\ sizeOk)
        /\ vres.why = IF ~exists THEN "not_found"
                      ELSE IF ~extOk THEN "unsupported"
                      ELSE IF ~sizeOk THEN "too_large"
                      ELSE ""

\* C14: validate_audio_file never raises: every failure, a file removed by
\* another actor between the existence check and the size check included,
\* comes back as the (valid, reason) pair
C14_NeverRaises ==
  /\ vres.st \in {"none", "returned"}
  /\ (fop = "validate" /\ fpc = "done") => vres.st = "returned"

\* C15 as claimed: for an existing file above the size limit, whatever its
\* extension, validate_audio_file returns valid = false with a reason that
\* mentions the measured size and the limit
C15_TooLargeReason ==
  (vres.st = "returned" /\ "upload" \in disk /\ st_size > 25 * max_size_mb)
  => /\ ~vres.valid
     /\ vres.why = "too_large"
     /\ vres.shown = <<Tenths(st_size), max_size_mb>>

\* C15 as amended: for an existing file above the size limit
\* validate_audio_file returns valid = false; the reason mentions the
\* measured size and the limit when the extension passed the extension
\* check, and is the unsupported-format reason when it did not
C15_TooLargeInvalid ==
  (vres.st = "returned" /\ "upload" \in disk /\ st_size > 25 * max_size_mb)
  => /\ ~vres.valid
     /\ IF Lower(suffix) \in allowed_formats
        THEN /\ vres.why = "too_large"
             /\ vres.shown = <<Tenths(st_size), max_size_mb>>
        ELSE vres.why = "unsupported"

C15_Witness ==
  /\ vres.st = "returned" /\ "upload" \in disk
  /\ st_size = 25 * max_size_mb + 1
  /\ vres.why = "too_large" /\ vres.shown = <<Tenths(st_size), max_size_mb>>

\* C16: convert_to_wav runs the library fallback exactly when the external
\* transcoder binary is unavailable; when the transcoder runs and exits with
\* a non-zero code or passes the 60 s deadline the call raises
\* AudioProcessingError, runs no fallback and returns no (path, duration)
C16_FallbackIffMissing ==
  /\ fallback => tool = "missing"
  /\ (tool = "missing" /\ fpc # "c_fallback") => fallback
  /\ (tool \in {"nonzero", "timeout"})
       => (~fallback /\ cres.st = "AudioProcessingError"
           /\ cres.path = "none" /\ fpc # "c_duration")

C16_Witness ==
  /\ fop = "convert" /\ fpc = "done" /\ tool = "timeout"
  /\ cres.st = "AudioProcessingError" /\ ~fallback

C16_WitnessFallback ==
  /\ fop = "convert" /\ fpc = "done" /\ tool = "missing" /\ fallback
  /\ cres.st = "returned"

\* C17: analyze(text) with blank text fails with ValueError in every
\* lifecycle state (loaded, unloaded, unloaded with a load that fails) and
\* never invokes the classifier
C17_BlankValueError ==
  \A t \in Threads :
    /\ (pc[t] = "done" /\ op[t] = "analyze" /\ ~arg[t])
         => res[t].st = "ValueError"
    /\ (pc[t] = "inf_invoke" /\ op[t] = "analyze") => arg[t]

\* C18: analyze_with_all_scores(text) with blank text returns the all-zero
\* distribution, without invoking the classifier and without raising
C18_BlankZeros ==
  \A t \in Threads :
    /\ (pc[t] = "done" /\ op[t] = "analyze_with_all_scores" /\ ~arg[t])
         => res[t].st = "zeros"
    /\ (pc[t] = "inf_invoke" /\ op[t] = "analyze_with_all_scores") => arg[t]

\* C19: for every classifier output (any labels, known or not, any order)
\* the distribution has every label of the fixed set exactly once, a label
\* no reported label maps to has score 0.0, and a label of the fixed set the
\* classifier reported keeps the score reported for it
C19_Distribution ==
  all_scores.st = "scores" =>
    /\ DOMAIN all_scores.d = SentimentLabel
    /\ \A l \in SentimentLabel :
         (\A i \in 1..Len(results) : MappedLabel(results[i].label) # l)
           => all_scores.d[l] = 0
    /\ \A i \in 1..Len(results) :
         results[i].label \in SentimentLabel
           => all_scores.d[results[i].label] = results[i].score

\* C20 as claimed: the distribution returned for a non-empty text has
\* exactly 6 keys
C20_SixKeys ==
  all_scores.st = "scores" => Cardinality(DOMAIN all_scores.d) = 6

\* C20 as amended: the distribution returned for a non-empty text has
\* exactly 7 keys, the labels of the fixed set with neutral among them,
\* also when the classifier reports a label outside the fixed set
C20_SevenKeys ==
  all_scores.st = "scores" =>
    /\ DOMAIN all_scores.d = SentimentLabel
    /\ Cardinality(DOMAIN all_scores.d) = 7

C20_Witness ==
  /\ all_scores.st = "scores"
  /\ \E i \in 1..Len(results) : results[i].label \notin SentimentLabel
  /\ Cardinality(DOMAIN all_scores.d) = 7

\* C21: for non-empty text analyze returns a raw label of highest raw
\* score, in the flat and in the nested output format, mapped through the
\* lookup table (a label outside the table maps to neutral), with exactly
\* that score; an empty raw output gives (neutral, 1.0)
C21_ArgMax ==
  dominant.st # "none" =>
    IF Len(results) = 0
    THEN dominant = Sentiment("neutral", 10)
    ELSE /\ dominant.st = "result"
         /\ \E i \in 1..Len(results) :
              /\ \A j \in 1..Len(results) :
                   results[j].score <= results[i].score
              /\ dominant.label =
                   (IF results[i].label \in DOMAIN EMOTION_MAPPING
                    THEN results[i].label ELSE "neutral")
              /\ dominant.score = results[i].score

\* C22: transcribe on a path that does not exist fails with
\* FileNotFoundError without invoking the model, and the missing file is
\* reported as FileNotFoundError through every entry point, transcribe_numpy
\* included, never as a generic inference error
C22_NotFound ==
  [][\A t \in Threads :
       /\ (pc[t] = "inf_arg" /\ op[t] = "transcribe" /\ ~arg[t]
             /\ pc'[t] # pc[t])
            => (pc'[t] = "done" /\ res'[t].st = "FileNotFoundError")
       /\ (pc[t] = "inf_arg" /\ op[t] = "transcribe_numpy" /\ ~staged[t])
            => pc'[t] # "inf_invoke"
       /\ (pc[t] = "np_cleanup" /\ exc[t] = "FileNotFoundError"
             /\ pc'[t] = "done")
            => res'[t].st = "FileNotFoundError"]_vars

\* C23: a service starts UNLOADED; when calls run one after the other the
\* loaded flag becomes true only by the last step of a load sequence
\* (explicit or lazy) and false only by unload_model; get_model_info, a
\* failing load, a non-forced load_model on a loaded service and inference
\* on a loaded service leave it as it is
C23_Lifecycle ==
  /\ ~model_loaded
  /\ [][/\ (~model_loaded /\ model_loaded') =>
            \E t \in Threads :
              /\ pc[t] = "lm_flag" /\ pc'[t] = cont[t]
              /\ model' = myid[t] /\ load_time' = myid[t]
        /\ (model_loaded /\ ~model_loaded') =>
            \E t \in Threads :
              op[t] = "unload_model" /\ pc[t] = "ul_flag" /\ pc'[t] = "done"
        /\ \A t \in Threads :
             (pc'[t] # pc[t] /\
                \/ op[t] = "get_model_info"
                \/ pc'[t] = "done" /\ res'[t].st = "RuntimeError"
                \/ pc[t] = "np_cleanup"
                \/ pc[t] = "lm_check" /\ model_loaded /\ ~force[t]
                \/ op[t] \in InferenceOps /\ model_loaded)
             => model_loaded' = model_loaded]_vars

C23_Witness ==
  \E t \in Threads :
    /\ pc[t] = "done" /\ op[t] = "unload_model" /\ ~model_loaded
    /\ nRec = 2 /\ nSeq = 3

\* C24: when calls run one after the other, after unload_model returns the
\* model, tokenizer and classifier handles are null and the loaded flag is
\* false, also in the state a failed load left behind, and a second
\* unload_model changes nothing
C24_UnloadReleases ==
  [][\A t \in Threads :
       /\ (op[t] = "unload_model" /\ pc[t] # "done" /\ pc'[t] = "done")
            => (model' = 0 /\ tokenizer' = 0 /\ classifier' = 0
                /\ ~model_loaded')
       /\ (op[t] = "unload_model" /\ afterUnload /\ pc'[t] # pc[t])
            => UNCHANGED fields]_vars

\* C25: get_chunk(start_offset, duration), for every buffer content and
\* every offset and duration, negative ones and offsets beyond the buffer
\* included, returns buffer[s:e] with start = length - start_offset * rate,
\* end = start + duration * rate (sample positions, cut to integers as int()
\* does), s and e being start and end clamped to [0, length]; it returns
\* the empty sequence when s >= e and leaves the buffer as it is
C25_ChunkWindow ==
  [][lastOp'.name = "get_chunk" =>
       LET length == Len(buffer)
           Clamp(x) == Max(0, Min(length, x))
           start == Trunc(2 * length - lastOp'.off2 * sample_rate, 2)
           end == Trunc(2 * start + lastOp'.dur2 * sample_rate, 2)
           s == Clamp(start)
           e == Clamp(end)
       IN  /\ chunk' = (IF s >= e THEN <<>>
                        ELSE [i \in 1..(e - s) |-> buffer[s + i]])
           /\ buffer' = buffer]_vars

\* a window that starts before sample 0 and reaches into the buffer
C25_Witness ==
  /\ lastOp.name = "get_chunk"
  /\ lastOp.off2 * sample_rate > 2 * Len(buffer)
  /\ Len(chunk) > 0

\* C26: remove_silence returns its input when no sample is above the
\* threshold; otherwise it returns the samples from max(0, first - pad) up
\* to min(length, last + pad), a range that holds every sample above the
\* threshold, the one at index last included, and is not empty, for every
\* pad >= 0
C26_SilenceTrim ==
  rpc = "done" =>
    IF non_silent = {} THEN trimmed = audio_data
    ELSE LET first == CHOOSE i \in non_silent : \A j \in non_silent : i <= j
             last == CHOOSE i \in non_silent : \A j \in non_silent : j <= i
             from == Max(0, first - frame_length)
             to == Min(Len(audio_data), last + frame_length)
         IN  /\ trimmed = [k \in 1..(to - from) |-> audio_data[from + k]]
             /\ \A i \in non_silent :
                  \E k \in 1..Len(trimmed) : trimmed[k] = audio_data[i + 1]
             /\ Len(trimmed) > 0

\* C27: no failure is swallowed: when a step of convert_to_wav fails, the
\* inspection of the produced file for its duration included, the call
\* raises a domain error instead of returning (output_path, duration); and
\* no raw I/O exception leaves validate_audio_file or convert_to_wav
C27_NothingSwallowed ==
  /\ cres.st = "returned" => cres.inspected
  /\ cres.st \in {"none", "returned", "AudioProcessingError"}
  /\ vres.st \in {"none", "returned"}

\* C28: under every interleaving of load_model, unload_model and the other
\* lifecycle calls, once no call is under way a service whose loaded flag
\* is true has a model handle, and for the sentiment service a tokenizer
\* and a classifier handle: it is never left loaded with a null handle
C28_HandlesWhenLoaded ==
  ((\A t \in Threads : pc[t] \in {"idle", "done"}) /\ model_loaded)
  => /\ model # 0
     /\ kind = "sentiment" => (tokenizer # 0 /\ classifier # 0)

\* C29: for every classifier output on non-empty text, the dominant label
\* analyze returns has, in the distribution analyze_with_all_scores returns
\* for the same output, the dominant score, and no label of the
\* distribution has a higher score
C29_CompleteConsistent ==
  (dominant.st = "result" /\ all_scores.st = "scores") =>
    /\ all_scores.d[dominant.label] = dominant.score
    /\ \A l \in DOMAIN all_scores.d : all_scores.d[l] <= dominant.score

\* C30: on an AudioBuffer of capacity 1 or more shared by threads without
\* synchronisation, in every interleaving of the two steps of append with
\* the reads and with another append, get_all, get_chunk and
\* length_seconds never show more than max_samples samples, and once no
\* append is under way the buffer holds the last samples appended, none
\* lost but the oldest ones evicted
C30_SharedBuffer ==
  max_samples >= 1 =>
    /\ lastOp.name \in {"get_all", "get_chunk"} => Len(chunk) <= max_samples
    /\ lastOp.name = "length_seconds"
         => secs2 * sample_rate <= 2 * max_samples
    /\ (\A t \in Threads : apc[t] = "idle")
         => buffer = LastSlice(hist, Min(Len(hist), max_samples))

\* C31: convert_to_wav calls running concurrently on distinct input files
\* without an explicit output_path, inputs in different directories with
\* the same stem included, never have the same output path, and no call
\* measures or has its cleanup delete a file another call produced
C31_OutputsIsolated ==
  /\ \A t, u \in Threads :
       (t # u /\ out_path[t] # NoPath /\ out_path[u] # NoPath)
       => out_path[t] # out_path[u]
  /\ \A t \in Threads : measured[t] \in {0, t} /\ deleted[t] \in {0, t}

====
